---- MODULE Spec2Model ----
(***************************************************************************)
(* Lead scoring and campaign assignment engine of the Entelech prospect    *)
(* intelligence schema (PostgreSQL, PL/pgSQL): the functions               *)
(* calculate_lead_score, calculate_engagement_score,                       *)
(* get_optimal_campaign_assignment, analyze_reply_basic and the triggers   *)
(* update_prospect_stage_on_analysis and update_engagement_on_activity.    *)
(*                                                                         *)
(* Conventions.  A nullable SQL value is <<>> (NULL) or <<v>>.  SQL        *)
(* booleans are three-valued: "t", "f", "null".  Text on which the code    *)
(* does pattern matching is a tuple of one-character strings.  DECIMAL     *)
(* hours are counted in tenths of an hour.  Timestamps are whole days.     *)
(***************************************************************************)
EXTENDS Integers, Sequences, FiniteSets, TLC

VARIABLES
    a_in,       \* arguments of a get_optimal_campaign_assignment call
    a_out,      \* <<its result>>, NULL before the call
    r_in,       \* argument of an analyze_reply_basic call
    r_out,      \* <<its result>>, NULL before the call
    companies,                  \* rows of table companies
    automation_opportunities,   \* rows of table automation_opportunities
    website_analyses,           \* rows of table website_analyses
    customer_journey_analyses,  \* rows of table customer_journey_analyses
    prospect_tracking,          \* rows of table prospect_tracking
    w_stmt,     \* <<OLD and NEW of the last row statement on website_analyses>>
    w_run,      \* <<the row statement on website_analyses whose trigger is
                \* computing the lead score>>, NULL when there is none
    l_in,       \* argument of a calculate_lead_score call
    l_out,      \* <<its result>>, NULL before the call
    instantly_integrations,     \* rows of table instantly_integrations
    instantly_email_activities, \* rows of table instantly_email_activities
    now,        \* NOW(), in days
    stmt,       \* <<SQLSTATE and activity_type of the last INSERT INTO
                \* instantly_email_activities>>, NULL before the first
    e_in,       \* argument of a calculate_engagement_score call
    e_out,      \* <<its outcome>>, NULL before the call
    sessions    \* <<the database sessions that run an INSERT INTO
                \* instantly_email_activities each>>, NULL when there is one

assignVars == <<a_in, a_out>>
replyVars == <<r_in, r_out>>
leadTables == <<companies, automation_opportunities, website_analyses,
                customer_journey_analyses, prospect_tracking, w_stmt, w_run>>
leadVars == <<leadTables, l_in, l_out>>
engTables == <<instantly_integrations, instantly_email_activities, now, stmt,
               sessions>>
engVars == <<engTables, e_in, e_out>>
vars == <<assignVars, replyVars, leadVars, engVars>>

\* ------------------------------------------------------------------------
\* SQL values
\* ------------------------------------------------------------------------
Null == <<>>
Some(v) == <<v>>
IsNull(x) == x = Null
Val(x) == x[1]

T3 == "t"
F3 == "f"
U3 == "null"
Bool3(b) == IF b THEN T3 ELSE F3

\* x >= n, x > n on a nullable integer x: NULL when x is NULL
Ge3(x, n) == IF IsNull(x) THEN U3 ELSE Bool3(Val(x) >= n)
Gt3(x, n) == IF IsNull(x) THEN U3 ELSE Bool3(Val(x) > n)

Or3(p, q) ==
    IF p = T3 \/ q = T3 THEN T3
    ELSE IF p = F3 /\ q = F3 THEN F3
    ELSE U3

And3(p, q) ==
    IF p = F3 \/ q = F3 THEN F3
    ELSE IF p = T3 /\ q = T3 THEN T3
    ELSE U3

\* IF / ELSIF / WHEN take a branch only when the condition is true
Taken(p) == p = T3

Min(a, b) == IF a <= b THEN a ELSE b
Max(a, b) == IF a >= b THEN a ELSE b

\* ------------------------------------------------------------------------
\* Text
\* ------------------------------------------------------------------------
UpperAlpha == <<"A","B","C","D","E","F","G","H","I","J","K","L","M",
                "N","O","P","Q","R","S","T","U","V","W","X","Y","Z">>
LowerAlpha == <<"a","b","c","d","e","f","g","h","i","j","k","l","m",
                "n","o","p","q","r","s","t","u","v","w","x","y","z">>

LowerChar(c) ==
    IF \E i \in 1..26 : UpperAlpha[i] = c
    THEN LowerAlpha[CHOOSE i \in 1..26 : UpperAlpha[i] = c]
    ELSE c

\* LOWER(text)
Lower(s) == [i \in 1..Len(s) |-> LowerChar(s[i])]

\* s contains sub as a substring: s ~ 'sub' for a pattern without
\* metacharacters, s LIKE '%sub%'
Contains(s, sub) ==
    \E i \in 0..(Len(s) - Len(sub)) :
        \A j \in 1..Len(sub) : s[i + j] = sub[j]

\* s ~ ANY(patterns)
MatchesAnyReversed(s, patterns) ==
    \E i \in 1..Len(patterns) : Contains(patterns[i], s)

MatchesAny(s, patterns) == \E k \in 1..Len(patterns) : Contains(s, patterns[k])

\* ------------------------------------------------------------------------
\* get_optimal_campaign_assignment
\* ------------------------------------------------------------------------
RegulatedPatterns ==
    << <<"l","e","g","a","l">>,
       <<"h","e","a","l","t","h","c","a","r","e">>,
       <<"f","i","n","a","n","c","i","a","l">> >>

\* p_industry ILIKE ANY(ARRAY['%legal%', '%healthcare%', '%financial%'])
IndustryRegulated(p_industry) ==
    IF IsNull(p_industry) THEN U3
    ELSE Bool3(MatchesAny(Lower(Val(p_industry)), RegulatedPatterns))

\* p_company_size IN ('enterprise', 'large')
SizeLarge(p_company_size) ==
    IF IsNull(p_company_size) THEN U3
    ELSE Bool3(Val(p_company_size) \in {"enterprise", "large"})

\* The tier chosen by the IF / ELSIF chain, delays in tenths of an hour
DefaultTier ==
    [campaign_id |-> "entelech_cold_outreach", sequence_id |-> "seq_cold_education",
     delay_hours |-> 240, priority |-> "low"]
EnterpriseTier ==
    [campaign_id |-> "entelech_enterprise_vip", sequence_id |-> "seq_enterprise_executive",
     delay_hours |-> 5, priority |-> "high"]
ProfessionalTier ==
    [campaign_id |-> "entelech_professional_priority", sequence_id |-> "seq_professional_priority",
     delay_hours |-> 10, priority |-> "medium"]
WarmTier ==
    [campaign_id |-> "entelech_warm_prospects", sequence_id |-> "seq_warm_nurture",
     delay_hours |-> 40, priority |-> "medium"]

SelectTierSwapped(p_lead_score, p_roi_potential, p_opportunities_count) ==
    IF Taken(Or3(Ge3(p_lead_score, 60),
                 And3(Gt3(p_roi_potential, 25000), Ge3(p_opportunities_count, 2))))
    THEN ProfessionalTier
    ELSE IF Taken(Or3(Ge3(p_lead_score, 80), Gt3(p_roi_potential, 50000)))
    THEN EnterpriseTier
    ELSE IF Taken(Or3(Ge3(p_lead_score, 40), Ge3(p_opportunities_count, 1)))
    THEN WarmTier
    ELSE DefaultTier

SelectTierElseWarm(p_lead_score, p_roi_potential, p_opportunities_count) ==
    IF Taken(Or3(Ge3(p_lead_score, 80), Gt3(p_roi_potential, 50000)))
    THEN EnterpriseTier
    ELSE IF Taken(Or3(Ge3(p_lead_score, 60),
                      And3(Gt3(p_roi_potential, 25000), Ge3(p_opportunities_count, 2))))
    THEN ProfessionalTier
    ELSE WarmTier

SelectTier(p_lead_score, p_roi_potential, p_opportunities_count) ==
    IF Taken(Or3(Ge3(p_lead_score, 80), Gt3(p_roi_potential, 50000)))
    THEN EnterpriseTier
    ELSE IF Taken(Or3(Ge3(p_lead_score, 60),
                      And3(Gt3(p_roi_potential, 25000), Ge3(p_opportunities_count, 2))))
    THEN ProfessionalTier
    ELSE IF Taken(Or3(Ge3(p_lead_score, 40), Ge3(p_opportunities_count, 1)))
    THEN WarmTier
    ELSE DefaultTier

\* Industry-specific adjustments
IndustryAdjustNoFloor(tier, p_industry) ==
    IF Taken(IndustryRegulated(p_industry))
    THEN [tier EXCEPT !.sequence_id = @ \o "_compliance", !.delay_hours = 20]
    ELSE tier

IndustryAdjust(tier, p_industry) ==
    IF Taken(IndustryRegulated(p_industry))
    THEN [tier EXCEPT !.sequence_id = @ \o "_compliance",
                      !.delay_hours = Max(@, 20)]
    ELSE tier

\* Company size adjustments
SizeAdjust(tier, p_company_size) ==
    IF Taken(SizeLarge(p_company_size))
    THEN [tier EXCEPT !.delay_hours = Max(@, 40)]
    ELSE tier

\* ROUND(x / 1000) on numeric: half away from zero
RoundThousands(x) ==
    IF x >= 0 THEN (x + 500) \div 1000 ELSE -((500 - x) \div 1000)

\* format('Lead Score: %s, ROI: $%sK, Opportunities: %s', ...): the three
\* values the %s are filled with, a NULL argument printing as nothing
AssignmentReason(p_lead_score, p_roi_potential, p_opportunities_count) ==
    [lead_score |-> p_lead_score,
     roi_k |-> IF IsNull(p_roi_potential) THEN Null
               ELSE Some(RoundThousands(Val(p_roi_potential))),
     opportunities |-> p_opportunities_count]

get_optimal_campaign_assignment(p_lead_score, p_roi_potential, p_industry, p_company_size, p_opportunities_count) ==
    LET tier == SelectTier(p_lead_score, p_roi_potential, p_opportunities_count)
        adj  == SizeAdjust(IndustryAdjust(tier, p_industry), p_company_size)
    IN  [campaign_id |-> adj.campaign_id,
         sequence_id |-> adj.sequence_id,
         delay_hours |-> adj.delay_hours,
         priority |-> adj.priority,
         assignment_reason |->
             AssignmentReason(p_lead_score, p_roi_potential, p_opportunities_count)]

\* Inputs of the assignment calls
LeadScoreInputs == {Null} \cup {Some(n) : n \in {0, 39, 40, 45, 59, 60, 75, 79, 80, 85, 100}}
RoiInputs == {Null} \cup {Some(n) : n \in {-2500, 0, 2500, 25000, 25001, 35000, 50000, 50001, 60000}}
CountInputs == {Null} \cup {Some(n) : n \in 0..3}
IndustryInputs ==
    {Null,
     Some(<<>>),
     Some(<<"T","e","c","h","n","o","l","o","g","y"," ","S","e","r","v","i","c","e","s">>),
     Some(<<"H","e","a","l","t","h","c","a","r","e"," ","S","e","r","v","i","c","e","s">>),
     Some(<<"L","E","G","A","L">>),
     Some(<<"n","o","n","-","f","i","n","a","n","c","i","a","l">>),
     Some(<<"l","e","g"," ","a","l">>)}
SizeInputs == {Null} \cup {Some(s) : s \in {"small", "medium", "large", "enterprise", "Enterprise"}}

AssignInputs ==
    [lead_score : LeadScoreInputs, roi_potential : RoiInputs,
     industry : IndustryInputs, company_size : SizeInputs,
     opportunities_count : CountInputs]

AssignInit ==
    /\ a_in \in {Some(a) : a \in AssignInputs}
    /\ a_out = Null

AssignIdle == a_in = Null /\ a_out = Null

CallAssignment ==
    /\ a_in # Null
    /\ a_out = Null
    /\ a_out' = Some(get_optimal_campaign_assignment(
                    Val(a_in).lead_score, Val(a_in).roi_potential, Val(a_in).industry,
                    Val(a_in).company_size, Val(a_in).opportunities_count))
    /\ UNCHANGED <<a_in, replyVars, leadVars, engVars>>

ReplyIdle == r_in = Null /\ r_out = Null

\* ------------------------------------------------------------------------
\* analyze_reply_basic
\* ------------------------------------------------------------------------
v_keywords_positive ==
    << <<"i","n","t","e","r","e","s","t","e","d">>,
       <<"y","e","s">>,
       <<"s","o","u","n","d","s"," ","g","o","o","d">>,
       <<"t","e","l","l"," ","m","e"," ","m","o","r","e">>,
       <<"s","c","h","e","d","u","l","e">>,
       <<"c","a","l","l">>,
       <<"m","e","e","t","i","n","g">>,
       <<"d","e","m","o">>,
       <<"p","r","i","c","i","n","g">>,
       <<"l","e","a","r","n"," ","m","o","r","e">> >>
v_keywords_negative ==
    << <<"n","o","t"," ","i","n","t","e","r","e","s","t","e","d">>,
       <<"n","o">>,
       <<"r","e","m","o","v","e">>,
       <<"u","n","s","u","b","s","c","r","i","b","e">>,
       <<"s","t","o","p">>,
       <<"s","p","a","m">>,
       <<"d","e","l","e","t","e">>,
       <<"b","u","s","y">>,
       <<"n","o"," ","t","h","a","n","k","s">> >>
v_keywords_meeting ==
    << <<"m","e","e","t","i","n","g">>,
       <<"c","a","l","l">>,
       <<"d","e","m","o">>,
       <<"s","c","h","e","d","u","l","e">>,
       <<"c","h","a","t">>,
       <<"d","i","s","c","u","s","s">> >>
v_keywords_pricing ==
    << <<"p","r","i","c","e">>,
       <<"c","o","s","t">>,
       <<"p","r","i","c","i","n","g">>,
       <<"b","u","d","g","e","t">>,
       <<"q","u","o","t","e">>,
       <<"p","r","o","p","o","s","a","l">> >>
\* the alternatives of the pattern 'remove|unsubscribe'
UnsubscribeAlternatives ==
    << <<"r","e","m","o","v","e">>,
       <<"u","n","s","u","b","s","c","r","i","b","e">> >>

\* LOWER(COALESCE(p_reply_content, ''))
ContentLower(p_reply_content) ==
    IF IsNull(p_reply_content) THEN <<>> ELSE Lower(Val(p_reply_content))

\* Sentiment analysis: the positive keywords are tried first
SentimentOf(v_content_lower) ==
    IF MatchesAny(v_content_lower, v_keywords_positive) THEN "positive"
    ELSE IF MatchesAny(v_content_lower, v_keywords_negative) THEN "negative"
    ELSE "neutral"

IntentPricingFirst(v_content_lower, v_sentiment) ==
    IF MatchesAny(v_content_lower, v_keywords_pricing) THEN "pricing_inquiry"
    ELSE IF MatchesAny(v_content_lower, v_keywords_meeting) THEN "meeting_request"
    ELSE IF MatchesAny(v_content_lower, UnsubscribeAlternatives) THEN "unsubscribe_request"
    ELSE IF v_sentiment = "positive" THEN "interested"
    ELSE IF v_sentiment = "negative" THEN "not_interested"
    ELSE "general_inquiry"

\* Intent classification
IntentOf(v_content_lower, v_sentiment) ==
    IF MatchesAny(v_content_lower, v_keywords_meeting) THEN "meeting_request"
    ELSE IF MatchesAny(v_content_lower, v_keywords_pricing) THEN "pricing_inquiry"
    ELSE IF MatchesAny(v_content_lower, UnsubscribeAlternatives) THEN "unsubscribe_request"
    ELSE IF v_sentiment = "positive" THEN "interested"
    ELSE IF v_sentiment = "negative" THEN "not_interested"
    ELSE "general_inquiry"

ConfidenceOf(v_content_lower) ==
    IF MatchesAny(v_content_lower, v_keywords_positive \o v_keywords_negative)
    THEN "high" ELSE "medium"

RequiresHumanReviewSentimentOnly(v_sentiment, v_intent) ==
    v_sentiment \in {"positive", "interested"}

\* v_sentiment IN ('positive', 'interested') OR v_intent = 'meeting_request'
RequiresHumanReview(v_sentiment, v_intent) ==
    v_sentiment \in {"positive", "interested"} \/ v_intent = "meeting_request"

analyze_reply_basic(p_reply_content) ==
    LET v_content_lower == ContentLower(p_reply_content)
        v_sentiment == SentimentOf(v_content_lower)
        v_intent == IntentOf(v_content_lower, v_sentiment)
    IN  [sentiment |-> v_sentiment,
         intent |-> v_intent,
         confidence |-> ConfidenceOf(v_content_lower),
         requires_human_review |-> RequiresHumanReview(v_sentiment, v_intent)]

\* Reply texts: up to MaxFragments fragments joined by blanks, and some
\* mixed-case replies
MaxFragments == 2

Fragments ==
    { <<"i","n","t","e","r","e","s","t","e","d">>,
      <<"n","o","t"," ","i","n","t","e","r","e","s","t","e","d">>,
      <<"y","e","s">>,
      <<"s","o","u","n","d","s"," ","g","o","o","d">>,
      <<"s","c","h","e","d","u","l","e">>,
      <<"c","a","l","l">>,
      <<"p","r","i","c","i","n","g">>,
      <<"p","r","i","c","e">>,
      <<"q","u","o","t","e">>,
      <<"n","o"," ","t","h","a","n","k","s">>,
      <<"r","e","m","o","v","e">>,
      <<"u","n","s","u","b","s","c","r","i","b","e">>,
      <<"s","t","o","p">>,
      <<"s","p","a","m">>,
      <<"b","u","s","y">>,
      <<"t","h","a","n","k","s">>,
      <<"o","k">>,
      <<"c","h","a","t">> }

RECURSIVE TextsOf(_)
TextsOf(n) ==
    IF n = 0 THEN {<<>>}
    ELSE {IF t = <<>> THEN f ELSE t \o <<" ">> \o f :
              t \in TextsOf(n - 1), f \in Fragments}

ScheduleCallText ==
    <<"C","a","n"," ","w","e"," ","s","c","h","e","d","u","l","e"," ","a"," ",
      "c","a","l","l"," ","n","e","x","t"," ","w","e","e","k","?">>

MixedCaseTexts ==
    { ScheduleCallText,
      <<"N","O","T"," ","I","N","T","E","R","E","S","T","E","D">>,
      <<"U","n","s","u","b","s","c","r","i","b","e">>,
      <<"W","h","a","t"," ","i","s"," ","t","h","e"," ","B","u","d","g","e","t">>,
      <<"T","h","a","n","k"," ","y","o","u">> }

ReplyInputs ==
    {Null} \cup {Some(t) : t \in MixedCaseTexts \cup UNION {TextsOf(n) : n \in 0..MaxFragments}}

ReplyInit ==
    /\ r_in \in {Some(x) : x \in ReplyInputs}
    /\ r_out = Null

CallAnalyzeReply ==
    /\ r_in # Null
    /\ r_out = Null
    /\ r_out' = Some(analyze_reply_basic(Val(r_in)))
    /\ UNCHANGED <<r_in, assignVars, leadVars, engVars>>

\* ------------------------------------------------------------------------
\* calculate_lead_score
\* ------------------------------------------------------------------------
\* table rows as a set of positions
Rows(table) == 1..Len(table)

RECURSIVE SumOver(_, _)
\* SUM(priority_score) over the rows at the positions idx
SumOver(table, idx) ==
    IF idx = {} THEN 0
    ELSE LET i == CHOOSE k \in idx : TRUE
         IN  table[i].priority_score + SumOver(table, idx \ {i})

\* A numeric that is not negative is held as [int, frac]: its integer part
\* and the decimal digits of its fraction, as many as its scale.

\* The weight of the first base-10000 digit of the integer x, and that digit
RECURSIVE Weight(_)
Weight(x) == IF x < 10000 THEN 0 ELSE 1 + Weight(x \div 10000)
RECURSIVE FirstDigit(_)
FirstDigit(x) == IF x < 10000 THEN x ELSE FirstDigit(x \div 10000)

\* The scale of the quotient x / y of two integers taken as numerics: at
\* least 16 significant digits, counted in groups of 4
DivScale(x, y) ==
    LET qweight == Weight(x) - Weight(y)
                   - (IF FirstDigit(x) <= FirstDigit(y) THEN 1 ELSE 0)
    IN  Max(0, 16 - 4 * qweight)

\* The first k decimal digits of r / y, 0 <= r < y
RECURSIVE QuotientDigits(_, _, _)
QuotientDigits(r, y, k) ==
    IF k = 0 THEN <<>>
    ELSE <<(10 * r) \div y>> \o QuotientDigits((10 * r) % y, y, k - 1)

\* What is left of r after k digits of r / y
RECURSIVE RemainderAfter(_, _, _)
RemainderAfter(r, y, k) ==
    IF k = 0 THEN r ELSE RemainderAfter((10 * r) % y, y, k - 1)

\* digits * k + c, c added at the last digit, worked from the last digit
\* to the first with done the digits already made: the digits and the carry
\* out of the first
RECURSIVE TimesDigits(_, _, _, _)
TimesDigits(digits, k, c, done) ==
    IF digits = <<>> THEN [carry |-> c, digits |-> done]
    ELSE TimesDigits(SubSeq(digits, 1, Len(digits) - 1), k,
                     (digits[Len(digits)] * k + c) \div 10,
                     <<(digits[Len(digits)] * k + c) % 10>> \o done)

\* x / y of the integers x >= 0, y > 0 taken as numerics (x::DECIMAL / y,
\* AVG over an integer column): the quotient at the scale DivScale,
\* rounded half up at its last digit
NumericDiv(x, y) ==
    LET k == DivScale(x, y)
        up == IF 2 * RemainderAfter(x % y, y, k) >= y THEN 1 ELSE 0
        f == TimesDigits(QuotientDigits(x % y, y, k), 1, up, <<>>)
    IN  [int |-> x \div y + f.carry, frac |-> f.digits]

\* v * k for an integer k >= 0: exact
NumericTimes(v, k) ==
    LET f == TimesDigits(v.frac, k, 0, <<>>)
    IN  [int |-> v.int * k + f.carry, frac |-> f.digits]

\* v / 10^s with s more digits of scale: exact
RECURSIVE ShiftRight(_, _)
ShiftRight(v, s) ==
    IF s = 0 THEN v
    ELSE ShiftRight([int |-> v.int \div 10, frac |-> <<v.int % 10>> \o v.frac], s - 1)

\* A numeric stored into an INTEGER: rounded to nearest, ties away from zero
NumericToInteger(v) ==
    v.int + (IF v.frac # <<>> /\ Head(v.frac) >= 5 THEN 1 ELSE 0)

\* NULL + x is NULL
Plus(x, y) == IF IsNull(x) \/ IsNull(y) THEN Null ELSE Some(Val(x) + Val(y))

\* LEAST(100, x): NULL arguments are ignored
Least100(x) == IF IsNull(x) THEN 100 ELSE Min(100, Val(x))

\* Company size scoring: NULL when no row of companies has the id
SizeScore(p_company_id) ==
    IF \E i \in Rows(companies) : companies[i].id = p_company_id
    THEN LET c == companies[CHOOSE i \in Rows(companies) : companies[i].id = p_company_id]
         IN  Some(CASE c.company_size_category = Some("enterprise") -> 25
                    [] c.company_size_category = Some("large") -> 20
                    [] c.company_size_category = Some("medium") -> 15
                    [] c.company_size_category = Some("small") -> 10
                    [] OTHER -> 5)
    ELSE Null

AutomationScoreTruncated(p_company_id) ==
    LET idx == {i \in Rows(automation_opportunities) :
                    automation_opportunities[i].company_id = p_company_id}
        n == Cardinality(idx)
        total == SumOver(automation_opportunities, idx)
    IN  IF n = 0 THEN 0
        ELSE IF 35 * total >= 35 * 100 * n THEN 35
        ELSE (35 * total) \div (100 * n)

\* Automation opportunity scoring: LEAST(35, COALESCE(AVG(priority_score), 0)
\* * 0.35), a numeric, stored into the INTEGER v_automation_score
AutomationScore(p_company_id) ==
    LET idx == {i \in Rows(automation_opportunities) :
                    automation_opportunities[i].company_id = p_company_id}
        n == Cardinality(idx)
        total == SumOver(automation_opportunities, idx)
        avg == IF n = 0 THEN [int |-> 0, frac |-> <<>>] ELSE NumericDiv(total, n)
        \* avg * 0.35, exact
        product == ShiftRight(NumericTimes(avg, 35), 2)
    IN  NumericToInteger(IF product.int >= 35 THEN [int |-> 35, frac |-> <<>>]
                         ELSE product)

\* The rows of  SELECT 1 FROM website_analyses ... UNION SELECT 1 FROM
\* customer_journey_analyses ...: UNION removes duplicate rows, and every
\* row is the row (1)
AnalysisRows(p_company_id) ==
    {1 : i \in {k \in Rows(website_analyses) :
                    /\ website_analyses[k].company_id = p_company_id
                    /\ website_analyses[k].scraping_status = "completed"}}
    \cup
    {1 : i \in {k \in Rows(customer_journey_analyses) :
                    customer_journey_analyses[k].company_id = p_company_id}}

\* Engagement scoring based on analysis completeness
AnalysisScore(p_company_id) ==
    LET count == Cardinality(AnalysisRows(p_company_id))
    IN  IF count >= 3 THEN 25
        ELSE IF count = 2 THEN 20
        ELSE IF count = 1 THEN 15
        ELSE 0

\* Service fit scoring
FitScore(p_company_id) ==
    Min(15, 5 * Cardinality({i \in Rows(automation_opportunities) :
            /\ automation_opportunities[i].company_id = p_company_id
            /\ automation_opportunities[i].service_tier # Null}))

\* v_score := the sum of the four scores; RETURN LEAST(100, v_score)
LeadScoreOf(v_company_size_score, v_automation_score, v_engagement_score, v_fit_score) ==
    Least100(Plus(Plus(Plus(v_company_size_score, v_automation_score),
                       v_engagement_score), v_fit_score))

\* The function run as one: its four SELECTs read the same tables
calculate_lead_score(p_company_id) ==
    LET v_company_size_score == SizeScore(p_company_id)
        v_automation_score == Some(AutomationScore(p_company_id))
        v_engagement_score == Some(AnalysisScore(p_company_id))
        v_fit_score == Some(FitScore(p_company_id))
    IN  LeadScoreOf(v_company_size_score, v_automation_score, v_engagement_score,
                    v_fit_score)

\* Tables of the lead score calls: one company "c1", up to MaxOpps
\* opportunities, MaxAnalyses website analyses and MaxJourneys journey
\* analyses of it; "c0" is the id of no company
MaxOpps == 3
MaxAnalyses == 2
MaxJourneys == 1

CompanyIds == {"c1"}
UnknownId == "c0"
SizeCategories == {Null} \cup {Some(s) : s \in {"startup", "small", "medium", "large", "enterprise"}}
Stages == {"identified", "analyzing", "analyzed", "contacted", "qualified",
           "disqualified", "converted"}
PrioritySamples == {10, 50, 80, 100}
ServiceTiers == {Null, Some("professional_7_5k")}
ScrapingSamples == {"pending", "completed"}

SeqsUpTo(S, n) == UNION {[1..k -> S] : k \in 0..n}

OpportunityRows ==
    [company_id : CompanyIds, priority_score : PrioritySamples, service_tier : ServiceTiers]
WebsiteRows ==
    [company_id : CompanyIds, analysis_version : {1}, scraping_status : ScrapingSamples]
JourneyRows == [company_id : CompanyIds, analysis_version : {1}]

\* Seven opportunities of priorities 4, 4, 4, 4, 4, 5, 5: their average
\* 30 / 7 does not end, and 0.35 times it is 1.5 but for the rounding
SevenOpportunities ==
    [i \in 1..7 |-> [company_id |-> "c1", priority_score |-> IF i <= 5 THEN 4 ELSE 5,
                     service_tier |-> Null]]

LeadInit ==
    /\ companies \in {<<[id |-> "c1", company_size_category |-> sz, status |-> "identified"]>> :
                          sz \in SizeCategories}
    /\ automation_opportunities \in
           SeqsUpTo(OpportunityRows, MaxOpps) \cup {SevenOpportunities}
    /\ website_analyses \in SeqsUpTo(WebsiteRows, MaxAnalyses)
    /\ customer_journey_analyses \in SeqsUpTo(JourneyRows, MaxJourneys)
    /\ prospect_tracking = <<>>
    /\ w_stmt = Null
    /\ w_run = Null
    /\ l_in = Null
    /\ l_out = Null

LeadIdle ==
    /\ companies = <<>>
    /\ automation_opportunities = <<>>
    /\ website_analyses = <<>>
    /\ customer_journey_analyses = <<>>
    /\ prospect_tracking = <<>>
    /\ w_stmt = Null
    /\ w_run = Null
    /\ l_in = Null
    /\ l_out = Null

CallLeadScore ==
    /\ l_out = Null
    /\ \E p_company_id \in CompanyIds \cup {UnknownId} :
          /\ l_in' = Some(p_company_id)
          /\ l_out' = Some(calculate_lead_score(p_company_id))
    /\ UNCHANGED <<leadTables, assignVars, replyVars, engVars>>

\* ------------------------------------------------------------------------
\* update_prospect_stage_on_analysis, AFTER INSERT OR UPDATE ON website_analyses
\* ------------------------------------------------------------------------
\* COALESCE(OLD.analysis_version, 0): OLD is NULL when the trigger is fired
\* by an INSERT
OldVersion(old) == IF IsNull(old) THEN 0 ELSE Val(old).analysis_version

AnalysisCompletedOnly(old, new) ==
    new.scraping_status = "completed"

\* The IF of the trigger function
AnalysisCompleted(old, new) ==
    new.scraping_status = "completed" \/ new.analysis_version > OldVersion(old)

StageAfterSkipping(status) ==
    IF status \in {"identified", "analyzing"} THEN "analyzed" ELSE status

StageAfterDefaulting(status) ==
    IF status = "identified" THEN "analyzing" ELSE "analyzed"

\* status = CASE WHEN ... END of the UPDATE of companies
StageAfter(status) ==
    IF status = "identified" THEN "analyzing"
    ELSE IF status = "analyzing" THEN "analyzed"
    ELSE status

\* The trigger function on the rows OLD (old, NULL on INSERT) and NEW (new):
\* the companies table it leaves
update_prospect_stage_on_analysis(old, new, comps) ==
    IF AnalysisCompleted(old, new)
    THEN [i \in Rows(comps) |->
             IF comps[i].id = new.company_id
             THEN [comps[i] EXCEPT !.status = StageAfter(@)]
             ELSE comps[i]]
    ELSE comps

\* Update lead score: the prospect_tracking table the trigger function
\* leaves, score being calculate_lead_score(NEW.company_id) on the tables
\* after the row statement
TrackingAfter(old, new, tracking, score) ==
    IF AnalysisCompleted(old, new)
    THEN [i \in Rows(tracking) |->
             IF tracking[i].company_id = new.company_id
             THEN [tracking[i] EXCEPT !.lead_score = Some(score)]
             ELSE tracking[i]]
    ELSE tracking

\* Up to MaxSnapshots website analyses of company "c1", of the versions and
\* scraping statuses below
MaxSnapshots == 2
VersionSamples == {1, 2}
SnapshotRows ==
    [company_id : CompanyIds, analysis_version : VersionSamples,
     scraping_status : ScrapingSamples]

\* A row statement on website_analyses does not end in one step when its
\* trigger calls calculate_lead_score: the function is VOLATILE, so that at
\* READ COMMITTED each of its SELECTs reads what is committed when it runs,
\* and statements of other sessions commit in between.  The statement under
\* way holds the lock of the companies row from its UPDATE companies on,
\* and of the website_analyses row it has written: a row statement that
\* needs one of them waits for it to end.
Waits(old, new, row) ==
    /\ w_run # Null
    /\ AnalysisCompleted(old, new) \/ row = Val(w_run).row

\* The statement on the row at position row has run UPDATE companies and,
\* when UPDATE prospect_tracking has a row to update and so calls
\* calculate_lead_score, the company size SELECT, which reads the companies
\* row the statement has locked
Started(old, new, row, v_company_size_score) ==
    IF /\ AnalysisCompleted(old, new)
       /\ \E i \in Rows(prospect_tracking) :
              prospect_tracking[i].company_id = new.company_id
    THEN Some([old |-> old, new |-> new, row |-> row, pc |-> "automation",
               v_company_size_score |-> v_company_size_score,
               v_automation_score |-> Null, v_engagement_score |-> Null])
    ELSE w_run

\* INSERT INTO website_analyses of the row new, which satisfies the
\* constraints of the table; the trigger fires with OLD NULL
InsertWebsiteAnalysis(new) ==
    /\ Len(website_analyses) < MaxSnapshots
    /\ ~Waits(Null, new, Len(website_analyses) + 1)
    /\ website_analyses' = Append(website_analyses, new)
    /\ companies' = update_prospect_stage_on_analysis(Null, new, companies)
    /\ w_stmt' = Some([old |-> Null, new |-> new])
    /\ w_run' = Started(Null, new, Len(website_analyses) + 1,
                        SizeScore(new.company_id)')
    /\ UNCHANGED <<automation_opportunities, customer_journey_analyses,
                   prospect_tracking>>
    /\ UNCHANGED <<l_in, l_out, assignVars, replyVars, engVars>>

\* UPDATE website_analyses SET analysis_version = version, scraping_status =
\* status of the row at position i; the trigger fires with OLD the row as it
\* was, also when no column changes
UpdateWebsiteAnalysis(i, version, status) ==
    /\ i \in Rows(website_analyses)
    /\ LET old == website_analyses[i]
           new == [old EXCEPT !.analysis_version = version,
                              !.scraping_status = status]
       IN  /\ ~Waits(Some(old), new, i)
           /\ website_analyses' = [website_analyses EXCEPT ![i] = new]
           /\ companies' = update_prospect_stage_on_analysis(Some(old), new, companies)
           /\ w_stmt' = Some([old |-> Some(old), new |-> new])
           /\ w_run' = Started(Some(old), new, i, SizeScore(new.company_id)')
    /\ UNCHANGED <<automation_opportunities, customer_journey_analyses,
                   prospect_tracking>>
    /\ UNCHANGED <<l_in, l_out, assignVars, replyVars, engVars>>

\* The automation opportunity SELECT of calculate_lead_score in the
\* statement under way
SelectAutomationScore ==
    /\ w_run # Null
    /\ Val(w_run).pc = "automation"
    /\ w_run' = Some([Val(w_run) EXCEPT
                         !.pc = "analysis",
                         !.v_automation_score =
                             Some(AutomationScore(Val(w_run).new.company_id))])
    /\ UNCHANGED <<companies, automation_opportunities, website_analyses,
                   customer_journey_analyses, prospect_tracking, w_stmt,
                   l_in, l_out, assignVars, replyVars, engVars>>

\* The analysis completeness SELECT of calculate_lead_score in the statement
\* under way
SelectAnalysisScore ==
    /\ w_run # Null
    /\ Val(w_run).pc = "analysis"
    /\ w_run' = Some([Val(w_run) EXCEPT
                         !.pc = "fit",
                         !.v_engagement_score =
                             Some(AnalysisScore(Val(w_run).new.company_id))])
    /\ UNCHANGED <<companies, automation_opportunities, website_analyses,
                   customer_journey_analyses, prospect_tracking, w_stmt,
                   l_in, l_out, assignVars, replyVars, engVars>>

\* The service fit SELECT of calculate_lead_score in the statement under
\* way, the sum and its cap; UPDATE prospect_tracking stores the score and
\* the statement ends
SelectFitScoreAndStore ==
    /\ w_run # Null
    /\ Val(w_run).pc = "fit"
    /\ LET run == Val(w_run)
           v_fit_score == Some(FitScore(run.new.company_id))
       IN  prospect_tracking' =
               TrackingAfter(run.old, run.new, prospect_tracking,
                             LeadScoreOf(run.v_company_size_score, run.v_automation_score,
                                         run.v_engagement_score, v_fit_score))
    /\ w_run' = Null
    /\ UNCHANGED <<companies, automation_opportunities, website_analyses,
                   customer_journey_analyses, w_stmt,
                   l_in, l_out, assignVars, replyVars, engVars>>

\* One company at any stage with its prospect_tracking row, no analyses yet
StageInit ==
    /\ companies \in {<<[id |-> "c1", company_size_category |-> Some("medium"),
                         status |-> st]>> : st \in Stages}
    /\ automation_opportunities \in SeqsUpTo(
           {[company_id |-> "c1", priority_score |-> 80,
             service_tier |-> Some("professional_7_5k")]}, 1)
    /\ website_analyses = <<>>
    /\ customer_journey_analyses = <<>>
    /\ prospect_tracking = <<[company_id |-> "c1", lead_score |-> Null]>>
    /\ w_stmt = Null
    /\ w_run = Null
    /\ l_in = Null
    /\ l_out = Null

\* ------------------------------------------------------------------------
\* Statements on automation_opportunities and customer_journey_analyses
\* ------------------------------------------------------------------------
\* Up to MaxInserted opportunities are inserted by a statement of the model
MaxInserted == 1

InsertOpportunityRescoring(row) ==
    /\ Len(automation_opportunities) < MaxInserted
    /\ automation_opportunities' = Append(automation_opportunities, row)
    /\ prospect_tracking' =
           [i \in Rows(prospect_tracking) |->
               IF prospect_tracking[i].company_id = row.company_id
               THEN [prospect_tracking[i] EXCEPT
                        !.lead_score = Some(calculate_lead_score(row.company_id))]
               ELSE prospect_tracking[i]]
    /\ UNCHANGED <<companies, website_analyses, customer_journey_analyses, w_stmt,
                   w_run, l_in, l_out, assignVars, replyVars, engVars>>

\* INSERT INTO automation_opportunities of the row: the table has no trigger
\* on INSERT
InsertOpportunity(row) ==
    /\ Len(automation_opportunities) < MaxInserted
    /\ automation_opportunities' = Append(automation_opportunities, row)
    /\ UNCHANGED <<companies, website_analyses, customer_journey_analyses,
                   prospect_tracking, w_stmt, w_run, l_in, l_out, assignVars,
                   replyVars, engVars>>

\* UPDATE automation_opportunities SET priority_score = priority of the row
\* at position i: the only trigger sets updated_at
UpdateOpportunity(i, priority) ==
    /\ i \in Rows(automation_opportunities)
    /\ automation_opportunities' =
           [automation_opportunities EXCEPT ![i].priority_score = priority]
    /\ UNCHANGED <<companies, website_analyses, customer_journey_analyses,
                   prospect_tracking, w_stmt, w_run, l_in, l_out, assignVars,
                   replyVars, engVars>>

\* INSERT INTO customer_journey_analyses of the row: the table has no
\* trigger on INSERT
InsertJourney(row) ==
    /\ Len(customer_journey_analyses) < MaxJourneys
    /\ customer_journey_analyses' = Append(customer_journey_analyses, row)
    /\ UNCHANGED <<companies, automation_opportunities, website_analyses,
                   prospect_tracking, w_stmt, w_run, l_in, l_out, assignVars,
                   replyVars, engVars>>

\* Tables of the engagement side: one integration "i1" of company "c1", up
\* to MaxEvents activity rows under the trigger, up to MaxLogged activity
\* rows in the tables of a calculate_engagement_score call
MaxEvents == 2
MaxLogged == 2

IntegrationIds == {"i1"}
Days == {1, 2}
Temperatures == {"cold", "warm", "hot", "interested", "qualified"}
LeadStatuses == {"active", "paused", "completed", "unsubscribed", "bounced",
                 "complained", "replied"}
ActivityTypes == {"sent", "delivered", "opened", "clicked", "replied", "bounced",
                  "unsubscribed", "complained"}

\* ------------------------------------------------------------------------
\* calculate_engagement_score
\* ------------------------------------------------------------------------
\* Outcome of a function call or statement: a value, or an error raised
Returned(v) == [sqlstate |-> "00000", value |-> Some(v)]
\* ERROR: record "v_activity_metrics" is not assigned yet
RecordNotAssigned == [sqlstate |-> "55000", value |-> Null]
HasRaised(outcome) == outcome.sqlstate # "00000"

\* The row SELECT ... INTO v_email_metrics reads: the integration with the
\* id, NULL when there is none
EmailMetrics(p_integration_id, integrations) ==
    IF \E i \in Rows(integrations) : integrations[i].id = p_integration_id
    THEN Some(integrations[CHOOSE i \in Rows(integrations) :
                               integrations[i].id = p_integration_id])
    ELSE Null

\* (x::DECIMAL / y * 100 * rate)::INTEGER, rate the decimal literal
\* k / 10^s: the quotient is rounded at its scale before the products
RateScore(x, y, k, s) ==
    NumericToInteger(ShiftRight(NumericTimes(NumericTimes(NumericDiv(x, y), 100), k), s))

\* Base scoring from email interactions
InteractionScore(m) ==
    IF m.emails_sent > 0
    THEN Min(15, RateScore(m.emails_opened, m.emails_sent, 6, 1))
         + (IF m.emails_opened > 0
            THEN Min(20, RateScore(m.emails_clicked, m.emails_opened, 667, 2))
            ELSE 0)
         + Min(25, m.emails_replied * 25)
         - m.emails_bounced * 5
    ELSE 0

\* Time-based engagement: days_since_last_activity is NOW() - last_activity_at
RecencyScore(m, t) ==
    IF IsNull(m.last_activity_at) THEN 0
    ELSE LET days == t - Val(m.last_activity_at)
         IN  IF days <= 1 THEN 20
             ELSE IF days <= 7 THEN 15
             ELSE IF days <= 30 THEN 10
             ELSE IF days <= 90 THEN 5
             ELSE 0

\* The row count and the count of distinct activity dates over the activities of
\* the integration in the trailing 30 days
ActivityCounts(p_integration_id, activities, t) ==
    LET idx == {i \in Rows(activities) :
                    /\ activities[i].integration_id = p_integration_id
                    /\ activities[i].activity_timestamp > t - 30}
    IN  [total_activities |-> Cardinality(idx),
         active_days |-> Cardinality({activities[i].activity_timestamp : i \in idx})]

\* SELECT count, distinct-date count INTO v_activity_metrics.total_activities,
\* v_activity_metrics.active_days.  v_activity_metrics is declared RECORD and
\* is never assigned as a whole.  "Until a record variable is first assigned
\* to, it has no substructure, and any attempt to access a field in it will
\* draw a run-time error" (PostgreSQL manual, PL/pgSQL, Record Types): the
\* statement raises  record "v_activity_metrics" is not assigned yet  on
\* every call, whatever the tables hold.
ActivityMetrics(p_integration_id, activities, t) ==
    RecordNotAssigned

\* Activity frequency bonus
FrequencyScore(counts) ==
    IF counts.active_days > 0 THEN Min(20, counts.active_days * 2) ELSE 0

calculate_engagement_score(p_integration_id, integrations, activities, t) ==
    LET v_email_metrics == EmailMetrics(p_integration_id, integrations)
        \* a NULL emails_sent or days_since_last_activity takes neither IF
        v_score1 == IF IsNull(v_email_metrics) THEN 0
                    ELSE InteractionScore(Val(v_email_metrics))
        v_score2 == IF IsNull(v_email_metrics) THEN v_score1
                    ELSE v_score1 + RecencyScore(Val(v_email_metrics), t)
        v_activity_metrics == ActivityMetrics(p_integration_id, activities, t)
    IN  IF HasRaised(v_activity_metrics) THEN v_activity_metrics
        ELSE Returned(Max(0, Min(100,
                 v_score2 + FrequencyScore(Val(v_activity_metrics.value)))))

\* ------------------------------------------------------------------------
\* update_engagement_on_activity, AFTER INSERT ON instantly_email_activities
\* ------------------------------------------------------------------------
\* a = 'lit' on a nullable text a
Eq3(a, lit) == IF IsNull(a) THEN U3 ELSE Bool3(Val(a) = lit)

\* lead_temperature = CASE ... END of the first UPDATE
NewTemperature(new, lead_temperature) ==
    IF Taken(And3(Bool3(new.activity_type = "replied"), Eq3(new.reply_sentiment, "positive")))
    THEN "hot"
    ELSE IF Taken(And3(Bool3(new.activity_type = "replied"), Eq3(new.reply_sentiment, "negative")))
    THEN "cold"
    ELSE IF new.activity_type = "clicked" THEN "warm"
    ELSE lead_temperature

\* lead_status = CASE ... END of the second UPDATE
NewLeadStatus(new, lead_status) ==
    IF Taken(Or3(Eq3(new.reply_sentiment, "negative"),
                 Eq3(new.reply_intent, "unsubscribe_request")))
    THEN "unsubscribed"
    ELSE IF Taken(Or3(Eq3(new.reply_sentiment, "positive"),
                      Eq3(new.reply_intent, "interested")))
    THEN "replied"
    ELSE lead_status

\* The trigger function on the row NEW (new), run after it has been appended to
\* activities: the integrations table it leaves, or the error it raises.
\* The SET expressions of an UPDATE read the row as it is before the UPDATE.
update_engagement_on_activity(new, integrations, activities, t) ==
    IF new.activity_type \in {"opened", "clicked", "replied"}
    THEN LET hit == {i \in Rows(integrations) : integrations[i].id = new.integration_id}
             score == calculate_engagement_score(new.integration_id, integrations,
                                                 activities, t)
             updated == [i \in Rows(integrations) |->
                            IF i \in hit
                            THEN [integrations[i] EXCEPT
                                     !.engagement_score = Val(score.value),
                                     !.lead_temperature = NewTemperature(new, @),
                                     !.last_activity_at = Some(new.activity_timestamp)]
                            ELSE integrations[i]]
             status == [i \in Rows(integrations) |->
                            IF i \in hit /\ new.activity_type = "replied"
                            THEN [updated[i] EXCEPT
                                     !.lead_status = NewLeadStatus(new, @)]
                            ELSE updated[i]]
         IN  IF hit # {} /\ HasRaised(score)
             THEN [sqlstate |-> score.sqlstate, integrations |-> integrations]
             ELSE [sqlstate |-> "00000", integrations |-> status]
    ELSE [sqlstate |-> "00000", integrations |-> integrations]

\* INSERT INTO instantly_email_activities of the row NEW (new): the row is
\* appended and the trigger fires; an error in the trigger aborts the
\* statement, which then leaves both tables as they were.
InsertEffect(new, integrations, activities, t) ==
    LET appended == Append(activities, new)
        fired == update_engagement_on_activity(new, integrations, appended, t)
    IN  IF fired.sqlstate = "00000"
        THEN [sqlstate |-> "00000", integrations |-> fired.integrations,
              activities |-> appended]
        ELSE [sqlstate |-> fired.sqlstate, integrations |-> integrations,
              activities |-> activities]

\* The values list of an INSERT INTO instantly_email_activities: every
\* column is a value or NULL.  tenant_id is taken to be a valid tenant.
ValuesOf(row) ==
    [integration_id |-> Some(row.integration_id),
     company_id |-> Some(row.company_id),
     instantly_activity_id |-> row.instantly_activity_id,
     activity_type |-> Some(row.activity_type),
     activity_timestamp |-> Some(row.activity_timestamp),
     reply_sentiment |-> row.reply_sentiment,
     reply_intent |-> row.reply_intent]

\* The row the values list stores once its NOT NULL columns have a value
StoredRow(values) ==
    [integration_id |-> Val(values.integration_id),
     company_id |-> Val(values.company_id),
     instantly_activity_id |-> values.instantly_activity_id,
     activity_type |-> Val(values.activity_type),
     activity_timestamp |-> Val(values.activity_timestamp),
     reply_sentiment |-> values.reply_sentiment,
     reply_intent |-> values.reply_intent]

\* CHECK (reply_sentiment IN (...)): a NULL passes
SentimentValues == {"positive", "neutral", "negative", "interested", "not_interested"}

NotNullViolation == "23502"
CheckViolation == "23514"
ForeignKeyViolation == "23503"

ConstraintViolationNoForeignKeys(values, integrations, comps) ==
    IF \/ IsNull(values.integration_id)
       \/ IsNull(values.company_id)
       \/ IsNull(values.activity_type)
       \/ IsNull(values.activity_timestamp)
    THEN NotNullViolation
    ELSE IF \/ Val(values.activity_type) \notin ActivityTypes
            \/ /\ ~IsNull(values.reply_sentiment)
               /\ Val(values.reply_sentiment) \notin SentimentValues
    THEN CheckViolation
    ELSE "00000"

\* The constraints of the table on a values list: NOT NULL and CHECK when
\* the row is formed, REFERENCES instantly_integrations(id) and
\* companies(id) after it (their triggers fire before
\* update_engagement_trigger, in name order).  "00000" when none is violated.
ConstraintViolation(values, integrations, comps) ==
    IF \/ IsNull(values.integration_id)
       \/ IsNull(values.company_id)
       \/ IsNull(values.activity_type)
       \/ IsNull(values.activity_timestamp)
    THEN NotNullViolation
    ELSE IF \/ Val(values.activity_type) \notin ActivityTypes
            \/ /\ ~IsNull(values.reply_sentiment)
               /\ Val(values.reply_sentiment) \notin SentimentValues
    THEN CheckViolation
    ELSE IF \/ \A i \in Rows(integrations) :
                   integrations[i].id # Val(values.integration_id)
            \/ \A i \in Rows(comps) : comps[i].id # Val(values.company_id)
    THEN ForeignKeyViolation
    ELSE "00000"

\* INSERT INTO instantly_email_activities VALUES (values): the SQLSTATE of
\* the statement and the tables it leaves
InsertStatement(values, integrations, activities, comps, t) ==
    LET violated == ConstraintViolation(values, integrations, comps)
    IN  IF violated # "00000"
        THEN [sqlstate |-> violated, integrations |-> integrations,
              activities |-> activities]
        ELSE InsertEffect(StoredRow(values), integrations, activities, t)

InsertActivity(values) ==
    /\ Len(instantly_email_activities) < MaxEvents
    /\ LET done == InsertStatement(values, instantly_integrations,
                                   instantly_email_activities, companies, now)
       IN  /\ instantly_email_activities' = done.activities
           /\ instantly_integrations' = done.integrations
           /\ stmt' = Some([sqlstate |-> done.sqlstate,
                            activity_type |-> values.activity_type])
    /\ UNCHANGED <<now, e_in, e_out, sessions, assignVars, replyVars, leadVars>>

\* Time passes
AdvanceClock ==
    /\ now + 1 \in Days
    /\ now' = now + 1
    /\ UNCHANGED <<instantly_integrations, instantly_email_activities, stmt,
                   e_in, e_out, sessions, assignVars, replyVars, leadVars>>

CallEngagementScore ==
    /\ e_out = Null
    /\ \E p_integration_id \in IntegrationIds \cup {UnknownId} :
          /\ e_in' = Some(p_integration_id)
          /\ e_out' = Some(calculate_engagement_score(p_integration_id,
                               instantly_integrations, instantly_email_activities, now))
    /\ UNCHANGED <<engTables, assignVars, replyVars, leadVars>>

ActivityRow(type, ts, id, sentiment, intent) ==
    [integration_id |-> "i1", company_id |-> "c1", instantly_activity_id |-> id,
     activity_type |-> type, activity_timestamp |-> ts,
     reply_sentiment |-> sentiment, reply_intent |-> intent]

IntegrationRow(sent, opened, clicked, replied, bounced, last, temp, status, score) ==
    [id |-> "i1", company_id |-> "c1",
     emails_sent |-> sent, emails_opened |-> opened, emails_clicked |-> clicked,
     emails_replied |-> replied, emails_bounced |-> bounced,
     last_activity_at |-> last, lead_temperature |-> temp, lead_status |-> status,
     engagement_score |-> score]

\* The activity rows inserted: events of the types of EventTypes at the days
\* of Days, replies with a sentiment and an intent
EventTypes == {"sent", "opened", "clicked", "replied"}
ActivityIds == {Some("a1"), Some("a2")}
Sentiments == {Null, Some("positive"), Some("negative"), Some("neutral")}
Intents == {Null, Some("unsubscribe_request"), Some("interested"), Some("meeting_request")}
Events ==
    {ActivityRow(type, ts, id, Null, Null) :
         type \in EventTypes \ {"replied"}, ts \in Days, id \in ActivityIds}
    \cup
    {ActivityRow("replied", x[1], x[2], x[3], x[4]) :
         x \in Days \X ActivityIds \X Sentiments \X Intents}

\* Values lists that break a constraint: a required column missing, a type
\* outside the CHECK list, an integration or a company that does not exist
InvalidValues ==
    UNION {{[v EXCEPT !.integration_id = Null],
            [v EXCEPT !.integration_id = Some(UnknownId)],
            [v EXCEPT !.company_id = Null],
            [v EXCEPT !.company_id = Some(UnknownId)],
            [v EXCEPT !.activity_type = Null],
            [v EXCEPT !.activity_type = Some("forwarded")],
            [v EXCEPT !.activity_timestamp = Null]} :
               v \in {ValuesOf(ActivityRow(type, 1, Some("a1"), Null, Null)) :
                          type \in {"sent", "opened"}}}

Submitted == {ValuesOf(new) : new \in Events} \cup InvalidValues

\* The company the integration belongs to
EngCompanies ==
    /\ companies = <<[id |-> "c1", company_size_category |-> Some("medium"),
                      status |-> "contacted"]>>
    /\ automation_opportunities = <<>>
    /\ website_analyses = <<>>
    /\ customer_journey_analyses = <<>>
    /\ prospect_tracking = <<>>
    /\ w_stmt = Null
    /\ w_run = Null
    /\ l_in = Null
    /\ l_out = Null

EngInit ==
    /\ instantly_integrations \in
           {<<IntegrationRow(sent, 2, 1, replied, 0, last, temp, status, 0)>> :
                sent \in {0, 3}, replied \in {0, 1}, last \in {Null, Some(1)},
                temp \in {"cold", "hot"}, status \in {"active", "unsubscribed"}}
    /\ instantly_email_activities = <<>>
    /\ now = 1
    /\ stmt = Null
    /\ e_in = Null
    /\ e_out = Null
    /\ sessions = Null

\* A log with one activity on each of the ten days up to day 100
TenDayLog == [i \in 1..10 |-> ActivityRow("sent", 101 - i, Null, Null, Null)]

\* Tables of a calculate_engagement_score call at day 100
EngCallInit ==
    /\ instantly_integrations \in
           {<<IntegrationRow(x[1], x[2], x[3], x[4], x[5], last, "cold", "active", 0)>> :
                x \in {0, 3, 100} \X {0, 2, 50} \X {0, 1, 10} \X {0, 1, 2} \X {0, 2, 30},
                last \in {Null} \cup {Some(100 - d) : d \in {-1, 0, 1, 2, 7, 8, 30, 31, 90, 91}}}
           \* 5 of 24 emails opened: 60 * 5 / 24 is 12.5 but for the rounding
           \cup {<<IntegrationRow(24, 5, 0, 0, 0, Null, "cold", "active", 0)>>}
    /\ instantly_email_activities \in
           SeqsUpTo({ActivityRow("sent", ts, Null, Null, Null) : ts \in {100, 99, 71, 70}},
                    MaxLogged) \cup {TenDayLog}
    /\ now = 100
    /\ stmt = Null
    /\ e_in = Null
    /\ e_out = Null
    /\ sessions = Null

EngIdle ==
    /\ instantly_integrations = <<>>
    /\ instantly_email_activities = <<>>
    /\ now = 1
    /\ stmt = Null
    /\ e_in = Null
    /\ e_out = Null
    /\ sessions = Null

\* ------------------------------------------------------------------------
\* Specifications
\* ------------------------------------------------------------------------
InitAssign == AssignInit /\ ReplyIdle /\ LeadIdle /\ EngIdle
SpecAssign == InitAssign /\ [][CallAssignment]_vars

InitReply == ReplyInit /\ AssignIdle /\ LeadIdle /\ EngIdle
SpecReply == InitReply /\ [][CallAnalyzeReply]_vars

InitLead == LeadInit /\ AssignIdle /\ ReplyIdle /\ EngIdle
SpecLead == InitLead /\ [][CallLeadScore]_vars

StageNext ==
    \/ \E new \in SnapshotRows : InsertWebsiteAnalysis(new)
    \/ \E i \in 1..MaxSnapshots, version \in VersionSamples, status \in ScrapingSamples :
           UpdateWebsiteAnalysis(i, version, status)
    \/ SelectAutomationScore
    \/ SelectAnalysisScore
    \/ SelectFitScoreAndStore

InitStage == StageInit /\ AssignIdle /\ ReplyIdle /\ EngIdle
SpecStage == InitStage /\ [][StageNext]_vars

\* One company with its prospect_tracking row and its integration, no
\* opportunities, analyses or activities yet
FrameInit ==
    /\ companies \in {<<[id |-> "c1", company_size_category |-> Some("medium"),
                         status |-> st]>> : st \in {"identified", "contacted"}}
    /\ automation_opportunities = <<>>
    /\ website_analyses = <<>>
    /\ customer_journey_analyses = <<>>
    /\ prospect_tracking = <<[company_id |-> "c1", lead_score |-> Null]>>
    /\ w_stmt = Null
    /\ w_run = Null
    /\ l_in = Null
    /\ l_out = Null
    /\ instantly_integrations =
           <<IntegrationRow(3, 2, 1, 0, 0, Null, "cold", "active", 0)>>
    /\ instantly_email_activities = <<>>
    /\ now = 1
    /\ stmt = Null
    /\ e_in = Null
    /\ e_out = Null
    /\ sessions = Null

FrameOpportunityRows ==
    {[company_id |-> "c1", priority_score |-> 80,
      service_tier |-> Some("professional_7_5k")]}

FrameEvents ==
    {ValuesOf(ActivityRow("sent", 1, Some("a1"), Null, Null)),
     ValuesOf(ActivityRow("replied", 1, Some("a2"), Some("positive"), Null))}


\* Website analyses of version 1, pending or completed
FrameSnapshotRows ==
    [company_id : CompanyIds, analysis_version : {1}, scraping_status : ScrapingSamples]

FrameNext ==
    \/ \E new \in FrameSnapshotRows : InsertWebsiteAnalysis(new)
    \/ \E status \in ScrapingSamples : UpdateWebsiteAnalysis(1, 1, status)
    \/ SelectAutomationScore
    \/ SelectAnalysisScore
    \/ SelectFitScoreAndStore
    \/ \E row \in FrameOpportunityRows : InsertOpportunity(row)
    \/ \E i \in 1..MaxInserted, priority \in {10, 80} : UpdateOpportunity(i, priority)
    \/ \E row \in JourneyRows : InsertJourney(row)
    \/ \E values \in FrameEvents : InsertActivity(values)

InitFrame == FrameInit /\ AssignIdle /\ ReplyIdle
SpecFrame == InitFrame /\ [][FrameNext]_vars

InitEngCall == EngCallInit /\ AssignIdle /\ ReplyIdle /\ LeadIdle
SpecEngCall == InitEngCall /\ [][CallEngagementScore]_vars

EngNext ==
    \/ \E values \in Submitted : InsertActivity(values)
    \/ AdvanceClock

InitEng == EngInit /\ AssignIdle /\ ReplyIdle /\ EngCompanies
SpecEng == InitEng /\ [][EngNext]_vars

\* ------------------------------------------------------------------------
\* Concurrent INSERTs INTO instantly_email_activities
\* ------------------------------------------------------------------------
\* MaxSessions database sessions run one INSERT each, in transactions of
\* their own at the default isolation level (READ COMMITTED): a statement
\* reads what is committed when it runs, and its own writes become visible
\* to the other sessions at its COMMIT.
MaxSessions == 2
Sessions == 1..MaxSessions

IdleSession ==
    [pc |-> "idle", values |-> Null, row |-> Null, integrations |-> Null,
     sqlstate |-> "00000", concurrent |-> FALSE]

\* Session s runs INSERT INTO instantly_email_activities VALUES (values).
\* A constraint error, or an error raised in the trigger, aborts its
\* transaction at once.  The trigger's UPDATE instantly_integrations
\* evaluates its SET expressions first and then takes the row's lock: while
\* another session holds it the UPDATE waits, and it works on the committed
\* row when it goes on.
Execute(s, values) ==
    /\ sessions # Null
    /\ LET all == Val(sessions)
           done == InsertStatement(values, instantly_integrations,
                                   instantly_email_activities, companies, now)
           ok == done.sqlstate = "00000"
           updates == ok /\ Val(values.activity_type) \in {"opened", "clicked", "replied"}
       IN  /\ all.of[s].pc = "idle"
           \* a session that has updated the integration row holds its
           \* lock until it commits
           /\ updates => \A o \in Sessions \ {s} :
                             ~(all.of[o].pc = "open" /\ all.of[o].integrations # Null)
           /\ sessions' = Some([all EXCEPT !.of[s] =
                  [pc |-> IF ok THEN "open" ELSE "aborted",
                   values |-> Some(values),
                   row |-> IF ok THEN Some(StoredRow(values)) ELSE Null,
                   integrations |-> IF updates THEN Some(done.integrations) ELSE Null,
                   sqlstate |-> done.sqlstate,
                   concurrent |-> \E o \in Sessions \ {s} : all.of[o].pc = "open"]])
           /\ stmt' = Some([sqlstate |-> done.sqlstate,
                            activity_type |-> values.activity_type])
    /\ UNCHANGED <<instantly_integrations, instantly_email_activities, now,
                   e_in, e_out, assignVars, replyVars, leadVars>>

\* COMMIT of session s: its row joins the log and the integration row it
\* updated, if any, replaces the committed one
Commit(s) ==
    /\ sessions # Null
    /\ LET all == Val(sessions)
       IN  /\ all.of[s].pc = "open"
           /\ instantly_email_activities' =
                  Append(instantly_email_activities, Val(all.of[s].row))
           /\ instantly_integrations' =
                  IF all.of[s].integrations = Null THEN instantly_integrations
                  ELSE Val(all.of[s].integrations)
           /\ sessions' = Some([all EXCEPT !.of[s].pc = "committed"])
    /\ UNCHANGED <<now, stmt, e_in, e_out, assignVars, replyVars, leadVars>>

\* The rows the sessions insert: two kinds the trigger passes over and two
\* it updates the integration for
SessionEvents ==
    {ValuesOf(ActivityRow("sent", 1, Some("a1"), Null, Null)),
     ValuesOf(ActivityRow("bounced", 1, Some("a2"), Null, Null)),
     ValuesOf(ActivityRow("clicked", 1, Some("a1"), Null, Null)),
     ValuesOf(ActivityRow("replied", 1, Some("a2"), Some("positive"), Null))}

\* One integration "i1" and a log of at most one row before the sessions
\* start; the tables at the start are kept in sessions.start
SessionInit ==
    /\ instantly_integrations \in
           {<<IntegrationRow(3, 2, 1, 0, 0, last, temp, status, 0)>> :
                last \in {Null, Some(1)}, temp \in {"cold", "hot"},
                status \in {"active", "unsubscribed"}}
    /\ instantly_email_activities \in
           {<<>>, <<ActivityRow("sent", 1, Some("a0"), Null, Null)>>}
    /\ now = 1
    /\ stmt = Null
    /\ e_in = Null
    /\ e_out = Null
    /\ sessions = Some([start |-> [integrations |-> instantly_integrations,
                                   activities |-> instantly_email_activities],
                        of |-> [s \in Sessions |-> IdleSession]])

SessionNext ==
    \/ \E s \in Sessions, values \in SessionEvents : Execute(s, values)
    \/ \E s \in Sessions : Commit(s)

InitSessions == SessionInit /\ AssignIdle /\ ReplyIdle /\ EngCompanies
SpecSessions == InitSessions /\ [][SessionNext]_vars

\* ------------------------------------------------------------------------
\* Properties of get_optimal_campaign_assignment
\* ------------------------------------------------------------------------
AtLeast(x, n) == x # Null /\ Val(x) >= n
MoreThan(x, n) == x # Null /\ Val(x) > n

MatchesRegulated(ind) ==
    /\ ind # Null
    /\ \/ Contains(Lower(Val(ind)), <<"l","e","g","a","l">>)
       \/ Contains(Lower(Val(ind)), <<"h","e","a","l","t","h","c","a","r","e">>)
       \/ Contains(Lower(Val(ind)), <<"f","i","n","a","n","c","i","a","l">>)

IsBigCompany(sz) == sz \in {Some("enterprise"), Some("large")}

\* the decision table of the specification: campaign, base delay in tenths
\* of an hour, priority
TableTier(ls, roi, cnt) ==
    IF AtLeast(ls, 80) \/ MoreThan(roi, 50000)
    THEN <<"entelech_enterprise_vip", 5, "high">>
    ELSE IF AtLeast(ls, 60) \/ (MoreThan(roi, 25000) /\ AtLeast(cnt, 2))
    THEN <<"entelech_professional_priority", 10, "medium">>
    ELSE IF AtLeast(ls, 40) \/ AtLeast(cnt, 1)
    THEN <<"entelech_warm_prospects", 40, "medium">>
    ELSE <<"entelech_cold_outreach", 240, "low">>

\* C2: the tier is picked by first match top-down: enterprise (0.5 h, high)
\* if lead_score >= 80 or roi > 50000, else professional (1 h, medium) if
\* lead_score >= 60 or (roi > 25000 and count >= 2), else warm (4 h, medium)
\* if lead_score >= 40 or count >= 1, else cold (24 h, low); the delay is
\* the base delay when no override applies; (85, 60000) is enterprise and
\* (75, 35000, 3) is professional.
C2_TierFirstMatch ==
    a_out # Null =>
        LET in == Val(a_in)
            out == Val(a_out)
            tier == TableTier(in.lead_score, in.roi_potential, in.opportunities_count)
        IN  /\ out.campaign_id = tier[1]
            /\ out.priority = tier[3]
            /\ (~MatchesRegulated(in.industry) /\ ~IsBigCompany(in.company_size))
                   => out.delay_hours = tier[2]
            /\ (in.lead_score = Some(85) /\ in.roi_potential = Some(60000)
                    /\ ~MatchesRegulated(in.industry) /\ ~IsBigCompany(in.company_size))
                   => /\ out.campaign_id = "entelech_enterprise_vip"
                      /\ out.delay_hours = 5
                      /\ out.priority = "high"
            /\ (in.lead_score = Some(75) /\ in.roi_potential = Some(35000)
                    /\ in.opportunities_count = Some(3))
                   => out.campaign_id = "entelech_professional_priority"

\* a call that reaches the professional tier through ROI and count alone,
\* with a lead score that only qualifies for warm
C2_Witness ==
    /\ a_out # Null
    /\ Val(a_in).lead_score = Some(45)
    /\ Val(a_in).roi_potential = Some(35000)
    /\ Val(a_in).opportunities_count = Some(3)
    /\ Val(a_out).campaign_id = "entelech_professional_priority"
    /\ Val(a_out).delay_hours = 10

BaseSequence(campaign) ==
    CASE campaign = "entelech_enterprise_vip" -> "seq_enterprise_executive"
      [] campaign = "entelech_professional_priority" -> "seq_professional_priority"
      [] campaign = "entelech_warm_prospects" -> "seq_warm_nurture"
      [] OTHER -> "seq_cold_education"

\* C3: delay_hours = max(tier delay, 2 if the industry is regulated, 4 if
\* the company size is enterprise or large); the sequence id carries the
\* compliance suffix exactly when the industry is regulated; campaign_id
\* and priority are those of the selected tier.
C3_Overrides ==
    a_out # Null =>
        LET in == Val(a_in)
            out == Val(a_out)
            tier == TableTier(in.lead_score, in.roi_potential, in.opportunities_count)
            reg == MatchesRegulated(in.industry)
            big == IsBigCompany(in.company_size)
        IN  /\ out.delay_hours =
                   Max(tier[2], Max(IF reg THEN 20 ELSE 0, IF big THEN 40 ELSE 0))
            /\ out.sequence_id =
                   IF reg THEN BaseSequence(tier[1]) \o "_compliance"
                   ELSE BaseSequence(tier[1])
            /\ out.campaign_id = tier[1]
            /\ out.priority = tier[3]

\* an enterprise-tier call in a regulated industry for a large company:
\* both overrides raise the delay
C3_Witness ==
    /\ a_out # Null
    /\ Val(a_in).lead_score = Some(85)
    /\ MatchesRegulated(Val(a_in).industry)
    /\ Val(a_in).company_size = Some("large")
    /\ Val(a_out).delay_hours = 40
    /\ Val(a_out).sequence_id = "seq_enterprise_executive_compliance"
    /\ Val(a_out).priority = "high"

\* ------------------------------------------------------------------------
\* Properties of analyze_reply_basic
\* ------------------------------------------------------------------------
\* C4: intent by fixed precedence, first match wins: meeting keyword, then
\* pricing keyword, then unsubscribe keyword, then positive sentiment, then
\* negative sentiment, then general_inquiry; 'Can we schedule a call next
\* week?' is a meeting_request that needs human review.
C4_IntentPrecedence ==
    r_out # Null =>
        LET t == ContentLower(Val(r_in))
            out == Val(r_out)
            expected ==
                IF MatchesAny(t, v_keywords_meeting) THEN "meeting_request"
                ELSE IF MatchesAny(t, v_keywords_pricing) THEN "pricing_inquiry"
                ELSE IF Contains(t, <<"r","e","m","o","v","e">>)
                        \/ Contains(t, <<"u","n","s","u","b","s","c","r","i","b","e">>)
                     THEN "unsubscribe_request"
                ELSE IF out.sentiment = "positive" THEN "interested"
                ELSE IF out.sentiment = "negative" THEN "not_interested"
                ELSE "general_inquiry"
        IN  /\ out.intent = expected
            /\ Val(r_in) = Some(ScheduleCallText)
                   => out.intent = "meeting_request" /\ out.requires_human_review

\* a reply with both a meeting and a pricing keyword, classified as a
\* meeting request
C4_Witness ==
    /\ r_out # Null
    /\ Val(r_in) = Some(<<"p","r","i","c","e"," ","c","h","a","t">>)
    /\ Val(r_out).intent = "meeting_request"

\* C5: the texts 'not interested', 'unsubscribe', 'stop' and 'spam' are
\* classified negative, and content that matches neither lexicon neutral.
C5_NegativeLexicon ==
    r_out # Null =>
        LET t == ContentLower(Val(r_in))
            out == Val(r_out)
        IN  /\ Val(r_in) \in {Some(<<"n","o","t"," ","i","n","t","e","r","e","s","t","e","d">>),
                              Some(<<"u","n","s","u","b","s","c","r","i","b","e">>),
                              Some(<<"s","t","o","p">>),
                              Some(<<"s","p","a","m">>)}
                   => out.sentiment = "negative"
            /\ (~MatchesAny(t, v_keywords_negative) /\ ~MatchesAny(t, v_keywords_positive))
                   => out.sentiment = "neutral"

\* ------------------------------------------------------------------------
\* Properties of calculate_lead_score
\* ------------------------------------------------------------------------
TheCompany == companies[1]
SizeTable(category) ==
    CASE category = Some("enterprise") -> 25
      [] category = Some("large") -> 20
      [] category = Some("medium") -> 15
      [] category = Some("small") -> 10
      [] OTHER -> 5
OppCount == Len(automation_opportunities)
PrioritySum == SumOver(automation_opportunities, Rows(automation_opportunities))
TieredCount ==
    Cardinality({i \in Rows(automation_opportunities) :
                     automation_opportunities[i].service_tier # Null})
HasCompletedWebsite ==
    \E i \in Rows(website_analyses) : website_analyses[i].scraping_status = "completed"
HasJourney == Len(customer_journey_analyses) > 0
LeadScoreOfCompany == l_in = Some("c1") /\ l_out # Null

\* C6 as stated: with no completed analyses, lead_score = sizeTable +
\* min(35, avg(priority_score) * 0.35) + min(15, 5 * tiered opportunities),
\* the middle term 0 without opportunities (both sides times 100 * count).
C6_ExactFormula ==
    (LeadScoreOfCompany /\ ~HasCompletedWebsite /\ ~HasJourney) =>
        IF OppCount = 0
        THEN Val(l_out) = SizeTable(TheCompany.company_size_category)
        ELSE 100 * OppCount * Val(l_out) =
                 100 * OppCount * (SizeTable(TheCompany.company_size_category)
                                   + Min(15, 5 * TieredCount))
                 + Min(35 * 100 * OppCount, 35 * PrioritySum)

\* the average, a numeric of 16 decimal places, is below the exact quotient
AverageRoundedDown ==
    /\ OppCount > 0
    /\ LET r == RemainderAfter(PrioritySum % OppCount, OppCount, 16)
       IN  r > 0 /\ 2 * r < OppCount

\* C6, amended: with no completed analyses, lead_score = sizeTable + a +
\* min(15, 5 * tiered opportunities), where a is min(35, avg * 0.35)
\* rounded to the nearest integer (a - 1/2 <= avg * 0.35 <= a + 1/2) and 0
\* without opportunities; avg is the average rounded at 16 decimal places,
\* so that a half is rounded upward unless the average was rounded down;
\* enterprise without opportunities scores 25.
C6_RoundedFormula ==
    (LeadScoreOfCompany /\ ~HasCompletedWebsite /\ ~HasJourney) =>
        /\ \E a \in 0..35 :
              /\ IF OppCount = 0 THEN a = 0
                 ELSE LET low == 200 * OppCount * a - 100 * OppCount
                          high == 200 * OppCount * a + 100 * OppCount
                      IN  /\ low <= 70 * PrioritySum
                          /\ 70 * PrioritySum <= high
                          /\ 70 * PrioritySum = low => ~AverageRoundedDown
                          /\ 70 * PrioritySum = high => AverageRoundedDown
              /\ Val(l_out) = SizeTable(TheCompany.company_size_category) + a
                              + Min(15, 5 * TieredCount)
        /\ (TheCompany.company_size_category = Some("enterprise") /\ OppCount = 0)
               => Val(l_out) = 25

\* a medium company whose single opportunity has priority 50: 0.35 * 50 is
\* 17.5 and the score is 15 + 18
C6_Witness ==
    /\ LeadScoreOfCompany
    /\ ~HasCompletedWebsite /\ ~HasJourney
    /\ TheCompany.company_size_category = Some("medium")
    /\ OppCount = 1
    /\ PrioritySum = 50
    /\ TieredCount = 0
    /\ Val(l_out) = 33

\* the distinct completed analysis types of the company
CompletedTypes ==
    (IF HasCompletedWebsite THEN {"website"} ELSE {})
    \cup (IF HasJourney THEN {"journey"} ELSE {})

\* C7: the analysis-completeness component is 25 for three or more distinct
\* completed analysis types, 20 for two, 15 for one, 0 for none; a company
\* with a completed website analysis and a journey analysis receives 20; with
\* unknown size, average priority 80, three completed analyses and two tiered
\* opportunities the score is 98.
C7_CompletenessComponent ==
    LeadScoreOfCompany =>
        LET types == Cardinality(CompletedTypes)
            component == IF types >= 3 THEN 25
                         ELSE IF types = 2 THEN 20
                         ELSE IF types = 1 THEN 15
                         ELSE 0
        IN  /\ Val(l_out) = Min(100, SizeTable(TheCompany.company_size_category)
                                     + AutomationScore("c1") + component + FitScore("c1"))
            /\ (/\ TheCompany.company_size_category \in {Null, Some("startup")}
                /\ OppCount = 2 /\ PrioritySum = 160 /\ TieredCount = 2
                /\ Len(website_analyses) = 2
                /\ \A i \in Rows(website_analyses) :
                       website_analyses[i].scraping_status = "completed"
                /\ HasJourney)
                   => Val(l_out) = 98

\* ------------------------------------------------------------------------
\* Properties of calculate_engagement_score
\* ------------------------------------------------------------------------
\* C1: calculate_lead_score and calculate_engagement_score return a value
\* in 0..100 for every input.
C1_ScoresInRange ==
    /\ l_out # Null => Val(l_out) \in 0..100
    /\ e_out # Null => /\ ~HasRaised(Val(e_out))
                       /\ Val(Val(e_out).value) \in 0..100

\* the lead score half of C1
LeadScoreInRange == l_out # Null => Val(l_out) \in 0..100

TheIntegration == instantly_integrations[1]

\* the terms of the specification's formula, times d
OpenTermTimes(m, d) ==
    IF m.emails_sent > 0
    THEN Min(15 * d, (60 * m.emails_opened * d) \div m.emails_sent)
    ELSE 0
ClickTermTimes(m, d) ==
    IF m.emails_sent > 0 /\ m.emails_opened > 0
    THEN Min(20 * d, (667 * m.emails_clicked * d) \div m.emails_opened)
    ELSE 0
OtherTerms(m) ==
    (IF m.emails_sent > 0
     THEN Min(25, 25 * m.emails_replied) - 5 * m.emails_bounced
     ELSE 0)
    + (IF IsNull(m.last_activity_at) THEN 0
       ELSE IF now - Val(m.last_activity_at) <= 1 THEN 20
       ELSE IF now - Val(m.last_activity_at) <= 7 THEN 15
       ELSE IF now - Val(m.last_activity_at) <= 30 THEN 10
       ELSE IF now - Val(m.last_activity_at) <= 90 THEN 5
       ELSE 0)
    + Min(20, 2 * Cardinality({instantly_email_activities[i].activity_timestamp :
                  i \in {k \in Rows(instantly_email_activities) :
                             instantly_email_activities[k].activity_timestamp > now - 30}}))

\* C8: calculate_engagement_score returns clamp(0, 100, E + recency +
\* frequency) with E = min(15, opened/sent*60) + min(20, clicked/opened*667)
\* (if opened > 0) + min(25, 25*replies) - 5*bounces when sent > 0, else 0;
\* sent = 0 or opened = 0 is no error (both sides times d = sent * opened,
\* or 1 where a counter is 0).
C8_ClampedSum ==
    (e_out # Null /\ e_in = Some("i1")) =>
        LET m == TheIntegration
            d == (IF m.emails_sent > 0 THEN m.emails_sent ELSE 1)
                 * (IF m.emails_opened > 0 THEN m.emails_opened ELSE 1)
            total == OpenTermTimes(m, d) + ClickTermTimes(m, d) + OtherTerms(m) * d
        IN  /\ ~HasRaised(Val(e_out))
            /\ Val(Val(e_out).value) * d = Max(0, Min(100 * d, total))

\* ------------------------------------------------------------------------
\* Properties of update_engagement_on_activity
\* ------------------------------------------------------------------------
\* the outcome of submitting the values list in the current state
Submit(values) ==
    InsertStatement(values, instantly_integrations, instantly_email_activities,
                    companies, now)

ValidValues == {ValuesOf(new) : new \in Events}

ScoreRecord(integrations) ==
    [engagement_score |-> integrations[1].engagement_score,
     lead_temperature |-> integrations[1].lead_temperature,
     lead_status |-> integrations[1].lead_status,
     last_activity_at |-> integrations[1].last_activity_at]

AfterBoth(first, second) ==
    LET one == InsertStatement(ValuesOf(first), instantly_integrations,
                               instantly_email_activities, companies, now)
    IN  <<one, InsertStatement(ValuesOf(second), one.integrations, one.activities,
                               companies, now)>>

\* the counters of an integration as a fold of its log gives them
FoldedCounters(activities) ==
    LET count(type) == Cardinality({i \in Rows(activities) :
                                        activities[i].activity_type = type})
    IN  [emails_sent |-> count("sent"), emails_opened |-> count("opened"),
         emails_clicked |-> count("clicked"), emails_replied |-> count("replied"),
         emails_bounced |-> count("bounced")]

\* C10: processing events in any arrival order yields the same final
\* ScoreRecord as processing them in timestamp order, because the score is
\* derived purely from the event log: from every state, any two events are
\* processed in either order and leave the same ScoreRecord, and the
\* interaction terms the score is made of are those the log gives.
C10_OrderIndependent ==
    /\ \A early, late \in Events :
           early.activity_timestamp < late.activity_timestamp =>
               LET sorted == AfterBoth(early, late)
                   arrived == AfterBoth(late, early)
               IN  /\ \A k \in 1..2 : /\ sorted[k].sqlstate = "00000"
                                      /\ arrived[k].sqlstate = "00000"
                   /\ ScoreRecord(arrived[2].integrations)
                          = ScoreRecord(sorted[2].integrations)
    /\ InteractionScore(TheIntegration)
           = InteractionScore(FoldedCounters(instantly_email_activities))

\* ------------------------------------------------------------------------
\* Properties of update_prospect_stage_on_analysis
\* ------------------------------------------------------------------------
TheStage == companies[1].status

\* position of a stage on the forward chain
StageRank(st) ==
    CASE st = "identified" -> 1
      [] st = "analyzing" -> 2
      [] st = "analyzed" -> 3
      [] st = "contacted" -> 4
      [] st = "qualified" -> 5
      [] OTHER -> 6

\* the row statement fires the trigger with its condition true
Qualifies(fired) ==
    \/ fired.new.scraping_status = "completed"
    \/ fired.new.analysis_version >
           (IF fired.old = Null THEN 0 ELSE Val(fired.old).analysis_version)

\* C13: under any sequence of analysis inserts and updates the trigger never
\* moves the stage backward, and a trigger firing while the stage is
\* analyzed, contacted, qualified, disqualified or converted leaves the
\* stage unchanged.
C13_NeverBackward ==
    [][/\ StageRank(TheStage') >= StageRank(TheStage)
       /\ TheStage \in {"analyzed", "contacted", "qualified", "disqualified",
                        "converted"} => TheStage' = TheStage]_vars

\* two inserts and an update to a completed analysis have fired the trigger
\* three times and the stage is analyzed: the last firing was at analyzed
C13_Witness ==
    /\ TheStage = "analyzed"
    /\ Len(website_analyses) = 2
    /\ w_stmt # Null
    /\ Val(w_stmt).old # Null
    /\ Val(w_stmt).new.scraping_status = "completed"

\* the step is a row statement on website_analyses
IsRowStatement ==
    /\ w_stmt' # Null
    /\ \/ w_stmt' # w_stmt
       \/ website_analyses' # website_analyses
       \/ w_run = Null /\ w_run' # Null

\* C14: each qualifying analysis trigger advances the stage by exactly one
\* step, identified to analyzing and analyzing to analyzed; a single trigger
\* never takes identified directly to analyzed.
C14_OneStep ==
    [][IsRowStatement =>
          /\ (Qualifies(Val(w_stmt')) /\ TheStage = "identified")
                 => TheStage' = "analyzing"
          /\ (Qualifies(Val(w_stmt')) /\ TheStage = "analyzing")
                 => TheStage' = "analyzed"
          /\ ~(TheStage = "identified" /\ TheStage' = "analyzed")]_vars

\* the first statement, an INSERT, has taken the stage from identified to
\* analyzing
C14_Witness ==
    /\ TheStage = "analyzing"
    /\ Len(website_analyses) = 1
    /\ w_stmt # Null
    /\ Val(w_stmt).old = Null

\* ------------------------------------------------------------------------
\* Properties of INSERT INTO instantly_email_activities
\* ------------------------------------------------------------------------
\* the statement changes neither the log nor any stored field
LeavesAllUnchanged(done) ==
    /\ done.activities = instantly_email_activities
    /\ done.integrations = instantly_integrations

\* the (prospect id, external activity id) pair of the values list is
\* already in the log
IsDuplicate(values) ==
    /\ values.instantly_activity_id # Null
    /\ \E i \in Rows(instantly_email_activities) :
           /\ instantly_email_activities[i].company_id = Val(values.company_id)
           /\ instantly_email_activities[i].instantly_activity_id
                  = values.instantly_activity_id

\* C11: submitting an event whose (prospect id, external activity id) pair
\* is already present in the event log is accepted without error and is a
\* no-op: the log gains no second entry and no stored field changes.
C11_DuplicateNoOp ==
    \A values \in ValidValues :
        IsDuplicate(values) =>
            /\ Submit(values).sqlstate = "00000"
            /\ LeavesAllUnchanged(Submit(values))

\* the event lacks prospect id, timestamp or kind, has a kind outside the
\* eight kinds, or references an unknown prospect or integration
IsMalformed(values) ==
    \/ values.company_id = Null
    \/ values.integration_id = Null
    \/ values.activity_timestamp = Null
    \/ values.activity_type = Null
    \/ Val(values.activity_type) \notin
           {"sent", "delivered", "opened", "clicked", "replied", "bounced",
            "unsubscribed", "complained"}
    \/ Val(values.company_id) \notin {companies[i].id : i \in Rows(companies)}
    \/ Val(values.integration_id) \notin
           {instantly_integrations[i].id : i \in Rows(instantly_integrations)}

\* C12: an event that lacks prospect id, timestamp or kind, has a kind
\* outside the eight kinds, or references an unknown prospect or integration
\* is rejected with an error, and the event log, scores, temperature and
\* lead_status are unchanged by it.
C12_MalformedRejected ==
    \A values \in Submitted :
        IsMalformed(values) =>
            /\ Submit(values).sqlstate # "00000"
            /\ LeavesAllUnchanged(Submit(values))

\* an INSERT naming an unknown integration or company has been rejected
C12_Witness ==
    /\ stmt # Null
    /\ Val(stmt).sqlstate = "23503"

\* C15: after processing any replied event whose sentiment is positive,
\* temperature is hot and lead_status is replied, whatever the intent and
\* the previous temperature and status.
C15_PositiveReply ==
    \A values \in ValidValues :
        (/\ values.activity_type = Some("replied")
         /\ values.reply_sentiment = Some("positive")) =>
            /\ Submit(values).integrations[1].lead_temperature = "hot"
            /\ Submit(values).integrations[1].lead_status = "replied"

HotOrAbove == {"hot", "interested", "qualified"}

\* C16: a clicked event sets temperature to warm only if the current
\* temperature is not already hotter: a prospect at cold or warm is at warm
\* after a click, a prospect whose temperature is hot or above before a
\* click has the same temperature after it, and that is the temperature the
\* trigger's UPDATE assigns.
C16_ClickKeepsHotter ==
    \A values \in ValidValues :
        values.activity_type = Some("clicked") =>
            LET before == instantly_integrations[1].lead_temperature
                after == Submit(values).integrations[1].lead_temperature
            IN  /\ before \notin HotOrAbove => after = "warm"
                /\ before \in HotOrAbove =>
                       /\ after = before
                       /\ NewTemperature(StoredRow(values), before) = before

\* C17: after processing a replied event with negative sentiment or with
\* intent unsubscribe_request, lead_status is unsubscribed, whatever the
\* previous status was.
C17_NegativeReply ==
    \A values \in ValidValues :
        (/\ values.activity_type = Some("replied")
         /\ \/ values.reply_sentiment = Some("negative")
            \/ values.reply_intent = Some("unsubscribe_request")) =>
            Submit(values).integrations[1].lead_status = "unsubscribed"

\* ------------------------------------------------------------------------
\* Scoring of an id that has no record
\* ------------------------------------------------------------------------
\* SQLSTATEs of the constraint errors a malformed event is rejected with
ValidationErrors == {"23502", "23514", "23503"}

\* C18: requesting lead_score for a prospect id that has no record, or
\* engagement_score for an integration id that has no record, yields a
\* not-found error that is distinct from a validation error; it never
\* yields a numeric score.
C18_NotFound ==
    /\ (l_in = Some(UnknownId) /\ l_out # Null) => Val(l_out) \notin Int
    /\ (e_in = Some(UnknownId) /\ e_out # Null) =>
           /\ HasRaised(Val(e_out))
           /\ Val(e_out).sqlstate \notin ValidationErrors
           /\ Val(e_out).sqlstate #
                  calculate_engagement_score("i1", instantly_integrations,
                      instantly_email_activities, now).sqlstate

\* ------------------------------------------------------------------------
\* Totality of analyze_reply_basic and get_optimal_campaign_assignment
\* ------------------------------------------------------------------------
\* C19: analyze_reply_basic yields a result for every input and never
\* fails; absent (NULL) or empty content yields sentiment neutral, intent
\* general_inquiry, confidence medium and requires_human_review false.
C19_ReplyTotal ==
    r_out # Null =>
        LET in == Val(r_in)
            out == Val(r_out)
        IN  /\ out.sentiment \in {"positive", "negative", "neutral"}
            /\ out.intent \in {"meeting_request", "pricing_inquiry",
                               "unsubscribe_request", "interested",
                               "not_interested", "general_inquiry"}
            /\ out.confidence \in {"high", "medium"}
            /\ out.requires_human_review \in BOOLEAN
            /\ (in = Null \/ in = Some(<<>>)) =>
                   out = [sentiment |-> "neutral", intent |-> "general_inquiry",
                          confidence |-> "medium",
                          requires_human_review |-> FALSE]

\* the function has been called on NULL
C19_Witness ==
    /\ r_in = Some(Null)
    /\ r_out # Null

\* k is x in thousands, rounded (halves away from zero)
IsRoundedThousands(k, x) ==
    IF x >= 0 THEN 1000 * k - 500 <= x /\ x < 1000 * k + 500
    ELSE 1000 * k - 500 < x /\ x <= 1000 * k + 500

\* C20: get_optimal_campaign_assignment never errors and always returns
\* campaign_id, sequence_id, delay_hours, priority and a reason built from
\* lead score, ROI in thousands (rounded) and opportunity count; inputs that
\* satisfy no tier condition, NULL lead_score, roi_potential and
\* opportunity_count included, yield the cold-tier assignment (delay 24,
\* priority low).
C20_AssignmentTotal ==
    a_out # Null =>
        LET in == Val(a_in)
            out == Val(a_out)
            noTier == /\ ~AtLeast(in.lead_score, 40)
                      /\ ~MoreThan(in.roi_potential, 50000)
                      /\ ~AtLeast(in.opportunities_count, 1)
        IN  /\ out.campaign_id \in {"entelech_cold_outreach", "entelech_warm_prospects",
                                    "entelech_professional_priority",
                                    "entelech_enterprise_vip"}
            /\ out.sequence_id \in STRING
            /\ out.delay_hours \in 5..240
            /\ out.priority \in {"low", "medium", "high"}
            /\ out.assignment_reason.lead_score = in.lead_score
            /\ out.assignment_reason.opportunities = in.opportunities_count
            /\ IF in.roi_potential = Null THEN out.assignment_reason.roi_k = Null
               ELSE /\ out.assignment_reason.roi_k # Null
                    /\ IsRoundedThousands(Val(out.assignment_reason.roi_k),
                                          Val(in.roi_potential))
            /\ noTier => /\ out.campaign_id = "entelech_cold_outreach"
                         /\ out.delay_hours = 240
                         /\ out.priority = "low"

\* the function has been called with NULL score, ROI and count
C20_Witness ==
    /\ a_out # Null
    /\ Val(a_in).lead_score = Null
    /\ Val(a_in).roi_potential = Null
    /\ Val(a_in).opportunities_count = Null

\* ------------------------------------------------------------------------
\* The review flag and the regulated warm scenario
\* ------------------------------------------------------------------------
\* C21: for every reply text, requires_human_review is true exactly when
\* the sentiment is positive, or the intent is interested, or the intent is
\* meeting_request; it is false in every other case.
C21_ReviewFlag ==
    r_out # Null =>
        LET out == Val(r_out)
        IN  out.requires_human_review =
                (\/ out.sentiment = "positive"
                 \/ out.intent = "interested"
                 \/ out.intent = "meeting_request")

\* a reply that asks for a meeting without a positive keyword is flagged
C21_Witness ==
    /\ r_out # Null
    /\ Val(r_out).intent = "meeting_request"
    /\ Val(r_out).sentiment # "positive"
    /\ Val(r_out).requires_human_review

HealthcareServices ==
    <<"H","e","a","l","t","h","c","a","r","e"," ","S","e","r","v","i","c","e","s">>

\* lead_score 45, industry 'Healthcare Services', and ROI, opportunity count
\* and company size triggering nothing else
IsRegulatedWarmScenario(in) ==
    /\ in.lead_score = Some(45)
    /\ in.industry = Some(HealthcareServices)
    /\ ~MoreThan(in.roi_potential, 50000)
    /\ ~(MoreThan(in.roi_potential, 25000) /\ AtLeast(in.opportunities_count, 2))
    /\ ~IsBigCompany(in.company_size)

\* C22 as stated: in that scenario the assignment is the warm tier, the
\* sequence id gets the compliance suffix, and the resulting delay is 2
\* hours.
C22_DelayTwoHours ==
    (a_out # Null /\ IsRegulatedWarmScenario(Val(a_in))) =>
        /\ Val(a_out).campaign_id = "entelech_warm_prospects"
        /\ Val(a_out).sequence_id = "seq_warm_nurture_compliance"
        /\ Val(a_out).delay_hours = 20

\* C22, amended: in that scenario the assignment is the warm tier, the
\* sequence id gets the compliance suffix, and the resulting delay is the
\* warm tier's 4 hours, which GREATEST(delay, 2) leaves as it is.
C22_DelayFourHours ==
    (a_out # Null /\ IsRegulatedWarmScenario(Val(a_in))) =>
        /\ Val(a_out).campaign_id = "entelech_warm_prospects"
        /\ Val(a_out).sequence_id = "seq_warm_nurture_compliance"
        /\ Val(a_out).delay_hours = 40

\* the scenario has been resolved
C22_Witness ==
    /\ a_out # Null
    /\ IsRegulatedWarmScenario(Val(a_in))
    /\ Val(a_in).roi_potential = Null
    /\ Val(a_in).opportunities_count = Some(0)

\* ------------------------------------------------------------------------
\* The engagement scenario
\* ------------------------------------------------------------------------
\* sent 100, opened 50, clicked 10, replied 1, bounced 2, last activity 0
\* days ago, 10 distinct active days in the trailing 30 days
IsEngagementScenario ==
    /\ e_in = Some("i1")
    /\ TheIntegration.emails_sent = 100
    /\ TheIntegration.emails_opened = 50
    /\ TheIntegration.emails_clicked = 10
    /\ TheIntegration.emails_replied = 1
    /\ TheIntegration.emails_bounced = 2
    /\ TheIntegration.last_activity_at = Some(now)
    /\ ActivityCounts("i1", instantly_email_activities, now).active_days = 10

\* C23: in that scenario the open-rate term is 4.5, the terms sum to more
\* than the ceiling, and the resulting engagement_score is capped at 100.
C23_ScenarioCapped ==
    (e_out # Null /\ IsEngagementScenario) =>
        /\ ~HasRaised(Val(e_out))
        /\ Val(Val(e_out).value) = 100

\* ------------------------------------------------------------------------
\* Analysis snapshots and the condition of the stage trigger
\* ------------------------------------------------------------------------
\* the step is an INSERT INTO website_analyses
IsSnapshotInsert ==
    Len(website_analyses') = Len(website_analyses) + 1

\* C26: for each prospect, the versions of its analysis snapshots are
\* strictly increasing in write order (no insert or update stores a version
\* equal to or lower than one already written for that prospect), and a
\* written snapshot is never modified afterwards.
C26_VersionsIncrease ==
    [][/\ IsSnapshotInsert =>
              \A i \in Rows(website_analyses) :
                  website_analyses[i].company_id
                      = website_analyses'[Len(website_analyses')].company_id
                  => website_analyses[i].analysis_version
                         < website_analyses'[Len(website_analyses')].analysis_version
       /\ \A i \in Rows(website_analyses) :
              website_analyses'[i] = website_analyses[i]]_vars

NextOnChain(st) ==
    CASE st = "identified" -> "analyzing"
      [] st = "analyzing" -> "analyzed"
      [] OTHER -> st

IsOtherStatement ==
    \/ automation_opportunities' # automation_opportunities
    \/ customer_journey_analyses' # customer_journey_analyses
    \/ instantly_email_activities' # instantly_email_activities
    \/ instantly_integrations' # instantly_integrations
    \/ stmt' # stmt

\* C27: the stored lead_score (prospect_tracking) and the stage are written
\* only by the website-analysis trigger when its condition holds; inserting
\* or changing opportunity records, inserting journey analyses and
\* processing engagement events leave both unchanged.
C27_WrittenOnlyByTrigger ==
    [][/\ IsOtherStatement =>
              /\ TheStage' = TheStage
              /\ prospect_tracking' = prospect_tracking
       /\ TheStage' # TheStage =>
              /\ ~IsOtherStatement
              /\ IsRowStatement
              /\ Qualifies(Val(w_stmt'))
       /\ prospect_tracking' # prospect_tracking =>
              /\ ~IsOtherStatement
              /\ w_run # Null
              /\ Qualifies(Val(w_run))]_vars

\* the stored lead_score differs from calculate_lead_score on the current
\* data: an opportunity was inserted after the trigger stored the score
C27_Witness ==
    /\ prospect_tracking[1].lead_score # Null
    /\ Val(prospect_tracking[1].lead_score) # calculate_lead_score("c1")
    /\ Len(automation_opportunities) = 1

\* ------------------------------------------------------------------------
\* Recompute of the engagement score by the activity trigger
\* ------------------------------------------------------------------------
\* C25: every accepted event, of any kind, causes a recompute for the
\* affected prospect: after the event is processed the stored
\* engagement_score equals the score recomputed from the state that
\* includes that event.
C25_EveryEventRecomputes ==
    \A values \in ValidValues :
        LET done == Submit(values)
            score == calculate_engagement_score("i1", done.integrations,
                                                done.activities, now)
        IN  (done.sqlstate = "00000" /\ ~IsDuplicate(values)) =>
                /\ ~HasRaised(score)
                /\ done.integrations[1].engagement_score = Val(score.value)

\* C29: lead_status unsubscribed is not terminal: after it is reached, a
\* replied event with positive sentiment and an intent other than
\* unsubscribe_request sets lead_status to replied and temperature to hot,
\* a clicked event sets temperature to warm, and the other kinds change
\* neither lead_status nor temperature.
C29_UnsubscribedNotTerminal ==
    instantly_integrations[1].lead_status = "unsubscribed" =>
        \A values \in ValidValues :
            LET before == instantly_integrations[1]
                after == Submit(values).integrations[1]
            IN  /\ (/\ values.activity_type = Some("replied")
                    /\ values.reply_sentiment = Some("positive")
                    /\ values.reply_intent # Some("unsubscribe_request")) =>
                       /\ after.lead_status = "replied"
                       /\ after.lead_temperature = "hot"
                /\ values.activity_type = Some("clicked") =>
                       after.lead_temperature = "warm"
                /\ Val(values.activity_type) \notin {"replied", "clicked"} =>
                       /\ after.lead_status = before.lead_status
                       /\ after.lead_temperature = before.lead_temperature

\* C30: the engagement_score the trigger stores for an opened, clicked or
\* replied event is computed from the integration row as it stood before
\* the event's own update: the recency term uses the previous
\* last_activity_at, and the event's timestamp is written to
\* last_activity_at in the same update.
C30_ScoreFromPreviousRow ==
    \A values \in ValidValues :
        (/\ Val(values.activity_type) \in {"opened", "clicked", "replied"}
         /\ ~IsDuplicate(values)) =>
            LET before == instantly_integrations[1]
                done == Submit(values)
                after == done.integrations[1]
            IN  /\ done.sqlstate = "00000"
                /\ after.engagement_score =
                       Max(0, Min(100,
                           InteractionScore(before) + RecencyScore(before, now)
                           + FrequencyScore(ActivityCounts("i1", done.activities, now))))
                /\ after.last_activity_at = values.activity_timestamp

\* ------------------------------------------------------------------------
\* Events of one integration processed concurrently
\* ------------------------------------------------------------------------
\* the orders in which the sessions' statements can be run one by one
Orders == {o \in [Sessions -> Sessions] : \A s, u \in Sessions : o[s] = o[u] => s = u}

\* the tables left by running the INSERTs of the values lists one after
\* the other, from the tables of state
RECURSIVE OneAfterTheOther(_, _)
OneAfterTheOther(state, list) ==
    IF list = <<>> THEN state
    ELSE LET done == InsertStatement(Head(list), state.integrations,
                                     state.activities, companies, now)
         IN  OneAfterTheOther([integrations |-> done.integrations,
                               activities |-> done.activities], Tail(list))

AllSessionsEnded ==
    /\ sessions # Null
    /\ \A s \in Sessions : Val(sessions).of[s].pc \in {"committed", "aborted"}

====
